---- MODULE Spec2Model ----
(***************************************************************************)
(* Model of the is_class video classification pipeline:                    *)
(*   main.py            main                                               *)
(*   frame_analyzer.py  analyze_frames, _parse_label_confidence            *)
(*   summarizer.py      summarize_frames, _chunk_entries, _summarize_chunk,*)
(*                      _parse_label_confidence, _model_max_tokens         *)
(* A text is a sequence of one-character strings.  A float parsed from a   *)
(* decimal literal is kept exactly, as [int, frac] with frac the sequence  *)
(* of fractional digits without trailing zeros.                            *)
(***************************************************************************)
EXTENDS Integers, Sequences, FiniteSets, TLC

(***************************************************************************)
(* Characters and the character classes of Python's re.                     *)
(***************************************************************************)
LowerSeq ==
  << "a","b","c","d","e","f","g","h","i","j","k","l","m",
     "n","o","p","q","r","s","t","u","v","w","x","y","z" >>

UpperSeq ==
  << "A","B","C","D","E","F","G","H","I","J","K","L","M",
     "N","O","P","Q","R","S","T","U","V","W","X","Y","Z" >>

DigitSeq == << "0","1","2","3","4","5","6","7","8","9" >>

Range(s) == { s[i] : i \in DOMAIN s }

DigitChars == Range(DigitSeq)
WordChars == Range(LowerSeq) \cup Range(UpperSeq) \cup Range(DigitSeq) \cup {"_"}
UpperChars == Range(UpperSeq)
LowerChars == Range(LowerSeq)

\* \d
IsDigit(c) == c \in DigitChars

\* \w
IsWordChar(c) == c \in WordChars

\* \s, and the characters str.strip() removes
IsSpace(c) == c \in {" ", "\n", "\t", "\r"}

\* str.lower() on one character
Lower(c) ==
  IF c \in UpperChars
  THEN LowerSeq[CHOOSE i \in DOMAIN UpperSeq : UpperSeq[i] = c]
  ELSE c

\* str.upper() on one character
Upper(c) ==
  IF c \in LowerChars
  THEN UpperSeq[CHOOSE i \in DOMAIN LowerSeq : LowerSeq[i] = c]
  ELSE c

\* int() of one decimal digit
DigitVal(c) == (CHOOSE i \in DOMAIN DigitSeq : DigitSeq[i] = c) - 1

\* str.capitalize(): first character upper-cased, the rest lower-cased
Capitalize(t) ==
  [i \in DOMAIN t |-> IF i = 1 THEN Upper(t[i]) ELSE Lower(t[i])]

\* str.strip(): leading and trailing whitespace removed
Strip(t) ==
  LET keep == { i \in DOMAIN t : ~IsSpace(t[i]) }
  IN IF keep = {} THEN << >>
     ELSE LET lo == CHOOSE i \in keep : \A j \in keep : i <= j
              hi == CHOOSE i \in keep : \A j \in keep : j <= i
          IN SubSeq(t, lo, hi)

(***************************************************************************)
(* _parse_label_confidence (the same function in both modules).            *)
(***************************************************************************)
Yes == << "Y","e","s" >>
No == << "N","o" >>
Unknown == << "U","n","k","n","o","w","n" >>

\* The words of the alternation (yes|no), in the order the regex tries them.
LabelWords == << << "y","e","s" >>, << "n","o" >> >>

\* \b(w)\b matches at position i of t, ignoring case.
WordMatchAt(t, i, w) ==
  /\ i + Len(w) - 1 <= Len(t)
  /\ \A k \in DOMAIN w : Lower(t[i + k - 1]) = w[k]
  /\ (i = 1 \/ ~IsWordChar(t[i - 1]))
  /\ (i + Len(w) > Len(t) \/ ~IsWordChar(t[i + Len(w)]))

\* re.search(r"\b(yes|no)\b", text, re.IGNORECASE), capitalized, or "Unknown".
ParseLabel(t) ==
  LET hits == { i \in DOMAIN t : \E k \in DOMAIN LabelWords : WordMatchAt(t, i, LabelWords[k]) }
  IN IF hits = {} THEN Unknown
     ELSE LET i == CHOOSE x \in hits : \A y \in hits : x <= y
              k == CHOOSE x \in DOMAIN LabelWords :
                     /\ WordMatchAt(t, i, LabelWords[x])
                     /\ \A y \in DOMAIN LabelWords : WordMatchAt(t, i, LabelWords[y]) => x <= y
          IN Capitalize(SubSeq(t, i, i + Len(LabelWords[k]) - 1))

\* The end of the maximal run of digits that starts at i (i - 1 when t[i] is no digit).
RECURSIVE DigitRunEnd(_, _)
DigitRunEnd(t, i) ==
  IF i <= Len(t) /\ IsDigit(t[i]) THEN DigitRunEnd(t, i + 1) ELSE i - 1

\* The end of the maximal run of whitespace that starts at i (i - 1 when there is none).
RECURSIVE SpaceRunEnd(_, _)
SpaceRunEnd(t, i) ==
  IF i <= Len(t) /\ IsSpace(t[i]) THEN SpaceRunEnd(t, i + 1) ELSE i - 1

\* \s*% matches from position i.
PercentFollows(t, i) ==
  LET j == SpaceRunEnd(t, i) + 1 IN j <= Len(t) /\ t[j] = "%"

\* The group (\d+(?:\.\d+)?) of a match of (\d+(?:\.\d+)?)\s*% that starts at i:
\* <<end of the integer part, end of the group>>, or << >> when there is no match at i.
\* Greedy matching with backtracking: the fraction is taken when "%" can follow
\* it; without it "%" must follow the integer part; a shorter run of digits
\* never helps, as the next character is then a digit.
NumberMatchAt(t, i) ==
  IF ~IsDigit(t[i]) THEN << >>
  ELSE LET ie == DigitRunEnd(t, i)
           hasFrac == ie + 2 <= Len(t) /\ t[ie + 1] = "." /\ IsDigit(t[ie + 2])
           fe == IF hasFrac THEN DigitRunEnd(t, ie + 2) ELSE ie
       IN IF hasFrac /\ PercentFollows(t, fe + 1) THEN << ie, fe >>
          ELSE IF PercentFollows(t, ie + 1) THEN << ie, ie >>
          ELSE << >>

\* int() of a run of decimal digits
RECURSIVE DigitsValue(_)
DigitsValue(d) ==
  IF d = << >> THEN 0
  ELSE 10 * DigitsValue(SubSeq(d, 1, Len(d) - 1)) + DigitVal(d[Len(d)])

\* Fractional digits without their trailing zeros: 80.50 and 80.5 are one float.
RECURSIVE TrimZeros(_)
TrimZeros(d) ==
  IF d # << >> /\ d[Len(d)] = "0" THEN TrimZeros(SubSeq(d, 1, Len(d) - 1)) ELSE d

\* float() of the literal int.frac
Float(intDigits, fracDigits) ==
  [int |-> DigitsValue(intDigits), frac |-> TrimZeros(fracDigits)]

\* 0.0, the value given when no percentage is found
Zero == Float(<< "0" >>, << >>)

\* re.search(r"(\d+(?:\.\d+)?)\s*%", text) as a float, or 0.0.
ParseConfidence(t) ==
  LET hits == { i \in DOMAIN t : NumberMatchAt(t, i) # << >> }
  IN IF hits = {} THEN Zero
     ELSE LET i == CHOOSE x \in hits : \A y \in hits : x <= y
              m == NumberMatchAt(t, i)
          IN Float(SubSeq(t, i, m[1]), SubSeq(t, m[1] + 2, m[2]))

_parse_label_confidence(t) == << ParseLabel(t), ParseConfidence(t) >>

\* Comparisons of floats with 0.0 and 100.0
IsZero(c) == c.int = 0 /\ c.frac = << >>
GreaterThanZero(c) == c.int > 0 \/ c.frac # << >>
AtMostHundred(c) == c.int < 100 \/ (c.int = 100 /\ c.frac = << >>)


(***************************************************************************)
(* Rendering of values to text: str(), f-strings, os.path.                  *)
(***************************************************************************)
\* str() of a non-negative int
RECURSIVE IntToText(_)
IntToText(n) ==
  IF n < 10 THEN << DigitSeq[n + 1] >>
  ELSE IntToText(n \div 10) \o << DigitSeq[(n % 10) + 1] >>

\* str() of a float: the repr always shows a fractional part ("80.0", "95.5")
FloatToText(c) ==
  IntToText(c.int) \o << "." >> \o (IF c.frac = << >> THEN << "0" >> ELSE c.frac)

\* os.path.basename: what follows the last "/"
Basename(path) ==
  LET slashes == { i \in DOMAIN path : path[i] = "/" }
  IN IF slashes = {} THEN path
     ELSE SubSeq(path, (CHOOSE i \in slashes : \A j \in slashes : j <= i) + 1, Len(path))

\* os.path.join(dir, name)
PathJoin(dir, name) == dir \o << "/" >> \o name

\* needle in hay (substring test of str)
Contains(hay, needle) ==
  \E i \in 1..(Len(hay) - Len(needle) + 1) : SubSeq(hay, i, i + Len(needle) - 1) = needle

\* "\n".join(texts)
RECURSIVE JoinLines(_)
JoinLines(texts) ==
  IF texts = << >> THEN << >>
  ELSE IF Len(texts) = 1 THEN texts[1]
  ELSE texts[1] \o << "\n" >> \o JoinLines(Tail(texts))


(***************************************************************************)
(* Bounds and inputs.                                                      *)
(***************************************************************************)
\* The most frame files the frames directory holds.
MaxFrames == 2

\* The unit of the encoder's token estimates: a text unit has one or two of them.
TokUnit == 800

\* len(encoder.encode(text)) for a text unit.  tiktoken is an external library:
\* its estimate is an input, drawn from these.
TokChoices == { TokUnit, 2 * TokUnit }

\* A frame interval the configuration file may set (main.py falls back to 10).
ConfiguredInterval == 3

FramesDir == << "o","u","t","/","f","r","a","m","e","s" >>
AnalysisDir == << "o","u","t","/","a","n","a","l","y","s","i","s" >>

\* frame_%06d.jpg, shortened to f<n>.jpg
FrameName(n) == << "f" >> \o IntToText(n) \o << ".","j","p","g" >>

\* sorted(os.listdir(frames_dir)) joined to frames_dir: the files in name order
RECURSIVE SortedListing(_, _)
SortedListing(present, n) ==
  IF n > MaxFrames THEN << >>
  ELSE (IF n \in present THEN << PathJoin(FramesDir, FrameName(n)) >> ELSE << >>)
       \o SortedListing(present, n + 1)

AnalyzerModel == << "g","p","t","-","4","o" >>
SummarizerModels == { << "g","p","t","-","4" >>, << "g","p","t","-","3",".","5","-","t","u","r","b","o" >>, << "l","l","a","m","a" >> }

AnalyzerPrompt == << "I","s"," ","i","t"," ","X","?" >>
ReflectionPrompt == << "S","u","r","e","?" >>
SummarizerPrompt == << "D","e","c","i","d","e","." >>

\* config.yaml as loaded: each of the keys may be missing.
ModelTables ==
  { [k \in D |-> IF k = "analyzer" THEN AnalyzerModel ELSE m] :
      D \in SUBSET {"analyzer", "summarizer"}, m \in SummarizerModels }

PromptTables ==
  { [k \in D |-> CASE k = "analyzer" -> AnalyzerPrompt
                   [] k = "reflection" -> ReflectionPrompt
                   [] k = "summarizer" -> SummarizerPrompt] :
      D \in SUBSET {"analyzer", "reflection", "summarizer"} }

Configs ==
  { [models |-> m, prompts |-> p, frame_interval |-> i] :
      m \in ModelTables, p \in PromptTables, i \in { << >>, << ConfiguredInterval >> } }

\* Replies of the model to a frame request.
Replies ==
  { << "Y","e","s"," ","8","0","%" >>,
    << "n","o" >>,
    << " ","N","O",","," ","9","5",".","5"," ","%","\n" >>,
    << "Y","E","S","." >>,
    << "y","e","s"," ","2","5","0","%" >> }

\* Replies of the model to a summarization request, each with the token count
\* the encoder gives it.
SummaryReplies ==
  { [text |-> << " ","m","i","x","e","d","\n" >>, tok |-> TokUnit],
    [text |-> << "Y","e","s",","," ","1","5","0"," ","%" >>, tok |-> 2 * TokUnit] }

(***************************************************************************)
(* State.  An optional value is a sequence of length 0 or 1.               *)
(***************************************************************************)
VARIABLES
  pc,                 \* where the run stands
  error,              \* the exception that ended the run, "" when none
  config,             \* config.yaml as loaded, frame_interval filled in by main
  frame_paths,        \* what extract_frames returned
  idx,                \* analyze_frames: index of the frame being judged
  request,            \* the model request in flight, if any
  resp,               \* the content of the last model response
  initial_reply,      \* analyze_frames: the stripped initial reply of the frame
  results,            \* analyze_frames: the records so far; then main's results
  written,            \* the per-frame JSON files written, in order
  calls,              \* model calls issued, per stage
  entries,            \* summarizer: the text units given to _chunk_entries
  max_prompt_tokens,  \* summarizer: the ceiling
  chunks,             \* summarizer: what _chunk_entries returned
  cidx,               \* summarizer: index of the chunk being summarized
  items,              \* _summarize_chunk: the units of the call in flight
  summaries,          \* summarizer: the chunk summaries so far
  final_result,       \* what summarize_frames returned, if it did
  final_file          \* final.txt, if written

vars ==
  << pc, error, config, frame_paths, idx, request, resp, initial_reply, results,
     written, calls, entries, max_prompt_tokens, chunks, cidx, items, summaries,
     final_result, final_file >>

analyzerVars == << idx, initial_reply, results, written >>
summarizerVars == << entries, max_prompt_tokens, chunks, cidx, items, summaries >>
mainVars == << config, frame_paths, final_result, final_file >>

\* A message turn of a chat request
Msg(role, content) == [role |-> role, content |-> content]

\* One more call of a stage
Called(stage) == [calls EXCEPT ![stage] = @ + 1]

\* An exception leaves the function and main: the run ends there.
Raise(exc) == pc' = "failed" /\ error' = exc

(***************************************************************************)
(* main: configuration loaded; frames extracted.                           *)
(***************************************************************************)
Init ==
  /\ pc = "extract"
  /\ error = ""
  /\ config \in Configs
  /\ frame_paths = << >>
  /\ idx = 0
  /\ request = << >>
  /\ resp = << >>
  /\ initial_reply = << >>
  /\ results = << >>
  /\ written = << >>
  /\ calls = [analyzer |-> 0, summarizer |-> 0]
  /\ entries = << >>
  /\ max_prompt_tokens = 0
  /\ chunks = << >>
  /\ cidx = 0
  /\ items = << >>
  /\ summaries = << >>
  /\ final_result = << >>
  /\ final_file = << >>

\* main: frame_interval defaults to 10; extract_frames lists the frames directory.
ExtractFrames ==
  /\ pc = "extract"
  /\ \E present \in SUBSET (1..MaxFrames) :
       frame_paths' = SortedListing(present, 1)
  /\ config' = [config EXCEPT !.frame_interval =
                  IF config.frame_interval = << >> THEN << 10 >> ELSE @]
  /\ pc' = "analyze"
  /\ UNCHANGED << error, request, resp, calls, final_result, final_file >>
  /\ UNCHANGED analyzerVars
  /\ UNCHANGED summarizerVars

(***************************************************************************)
(* analyze_frames                                                          *)
(***************************************************************************)
\* config.get("prompts", {}).get("reflection"): the prompt, if one is set
reflection_prompt ==
  IF "reflection" \in DOMAIN config.prompts THEN << config.prompts["reflection"] >> ELSE << >>

\* if reflection_prompt: a prompt that is set and not empty
ReflectionConfigured == reflection_prompt # << >> /\ reflection_prompt[1] # << >>

\* base64 of the frame file's bytes, kept as the path in brackets
Base64Image(frame_path) == << "[" >> \o frame_path \o << "]" >>

\* messages of the initial call
InitialMessages(frame_path) ==
  << Msg("system", config.prompts["analyzer"]),
     Msg("user", << "H","e","r","e"," ","i","s"," ","a"," ","b","a","s","e","6","4","-","e","n","c","o","d","e","d"," ","i","m","a","g","e",":","\n" >> \o Base64Image(frame_path)) >>

\* reflect_msgs without the assistant's turn
ReflectMessagesNoReply(frame_path, reply) ==
  InitialMessages(frame_path) \o << Msg("user", reflection_prompt[1]) >>

\* reflect_msgs
ReflectMessages(frame_path, reply) ==
  InitialMessages(frame_path)
    \o << Msg("assistant", reply), Msg("user", reflection_prompt[1]) >>

\* The final judgment without the fallback
FinalJudgmentNoFallback(initial, final) == final

\* The fallback to the initial judgment (lines 79-81)
FinalJudgment(initial, final) ==
  IF IsZero(final[2]) /\ GreaterThanZero(initial[2]) THEN initial ELSE final

\* The timestamp counted from 1
TimestampFromOne(i, interval) == (i + 1) * interval

\* timestamp = idx * interval
Timestamp(i, interval) == i * interval

\* The result of the frame at index i, whose initial reply and final content are given
FrameResult(i, frame_path, initialText, finalText) ==
  LET judged == FinalJudgment(_parse_label_confidence(initialText),
                              _parse_label_confidence(finalText))
  IN [frame |-> Basename(frame_path),
      timestamp |-> Timestamp(i, config.frame_interval[1]),
      label |-> judged[1],
      confidence |-> judged[2]]

\* out_path of a result
OutPath(result) == PathJoin(AnalysisDir, result.frame \o << ".","j","s","o","n" >>)

\* The frame's result appended and not written
RecordFrameNoWrite(initialText, finalText) ==
  LET result == FrameResult(idx, frame_paths[idx + 1], initialText, finalText)
  IN /\ results' = Append(results, result)
     /\ written' = written
     /\ idx' = idx + 1
     /\ pc' = IF idx + 1 < Len(frame_paths) THEN "initial" ELSE "return"

\* Lines 79-92: the frame's result is appended and written; the loop goes on, or
\* analyze_frames returns and main calls summarize_frames.
RecordFrame(initialText, finalText) ==
  LET result == FrameResult(idx, frame_paths[idx + 1], initialText, finalText)
  IN /\ results' = Append(results, result)
     /\ written' = Append(written, [path |-> OutPath(result), record |-> result])
     /\ idx' = idx + 1
     /\ pc' = IF idx + 1 < Len(frame_paths) THEN "initial" ELSE "return"

\* Lines 25-33: the configuration is read; the loop starts.
AnalyzeBegin ==
  /\ pc = "analyze"
  /\ IF "analyzer" \notin DOMAIN config.models \/ "analyzer" \notin DOMAIN config.prompts
     THEN Raise("KeyError")
     ELSE /\ pc' = IF frame_paths = << >> THEN "return" ELSE "initial"
          /\ error' = error
  /\ UNCHANGED << request, resp, calls >>
  /\ UNCHANGED analyzerVars
  /\ UNCHANGED summarizerVars
  /\ UNCHANGED mainVars

\* Lines 36-55: the initial request of the frame is sent.
SendInitial ==
  /\ pc = "initial"
  /\ request' = << [model |-> config.models["analyzer"],
                    messages |-> InitialMessages(frame_paths[idx + 1])] >>
  /\ calls' = Called("analyzer")
  /\ pc' = "await_initial"
  /\ UNCHANGED << error, resp >>
  /\ UNCHANGED analyzerVars
  /\ UNCHANGED summarizerVars
  /\ UNCHANGED mainVars

\* Lines 60-66: the initial reply arrives; with a reflection prompt the frame
\* goes on to reflection, without one final_content is the initial reply.
RecvInitial ==
  /\ pc = "await_initial"
  /\ \E r \in Replies :
       /\ resp' = r
       /\ initial_reply' = Strip(r)
       /\ IF ReflectionConfigured
          THEN /\ pc' = "reflect"
               /\ UNCHANGED << idx, results, written >>
          ELSE RecordFrame(Strip(r), Strip(r))
  /\ request' = << >>
  /\ UNCHANGED << error, calls >>
  /\ UNCHANGED summarizerVars
  /\ UNCHANGED mainVars

\* Lines 67-73: the reflection request is sent.
SendReflect ==
  /\ pc = "reflect"
  /\ request' = << [model |-> config.models["analyzer"],
                    messages |-> ReflectMessages(frame_paths[idx + 1], initial_reply)] >>
  /\ calls' = Called("analyzer")
  /\ pc' = "await_reflect"
  /\ UNCHANGED << error, resp >>
  /\ UNCHANGED analyzerVars
  /\ UNCHANGED summarizerVars
  /\ UNCHANGED mainVars

\* Lines 77-92: the reflection reply arrives and is final_content.
RecvReflect ==
  /\ pc = "await_reflect"
  /\ \E r \in Replies :
       /\ resp' = r
       /\ RecordFrame(initial_reply, Strip(r))
  /\ request' = << >>
  /\ UNCHANGED << error, calls, initial_reply >>
  /\ UNCHANGED summarizerVars
  /\ UNCHANGED mainVars

\* Line 94 and main lines 53-58: analyze_frames returns its results, its other
\* locals are gone, and main calls summarize_frames.
AnalyzeReturn ==
  /\ pc = "return"
  /\ pc' = "summarize"
  /\ idx' = 0
  /\ initial_reply' = << >>
  /\ resp' = << >>
  /\ UNCHANGED << error, request, calls, results, written >>
  /\ UNCHANGED summarizerVars
  /\ UNCHANGED mainVars

\* A model call raises (network, authentication, rate limit): nothing catches it.
FailCall ==
  /\ request # << >>
  /\ pc \in {"await_initial", "await_reflect", "await_chunk", "await_aggregate"}
  /\ Raise("CallFailure")
  /\ UNCHANGED << request, resp, calls >>
  /\ UNCHANGED analyzerVars
  /\ UNCHANGED summarizerVars
  /\ UNCHANGED mainVars


(***************************************************************************)
(* summarize_frames.  A text unit is [text, tok]: the text and the         *)
(* encoder's token count for it.                                           *)
(***************************************************************************)
Unit(text, tok) == [text |-> text, tok |-> tok]

\* Line 27: the line of text of a result
RenderEntry(r) ==
  << "F","r","a","m","e"," " >> \o r.frame \o << " ","a","t"," " >> \o IntToText(r.timestamp) \o << "s",":"," " >>
    \o r.label \o << " ","(" >> \o FloatToText(r.confidence) \o << "%",")" >>

_model_max_tokens(model) ==
  IF Contains(model, << "g","p","t","-","4" >>) THEN 8192
  ELSE IF Contains(model, << "g","p","t","-","3",".","5" >>) THEN 4096
  ELSE 2048

buffer_tokens == 500

\* The test of line 69 without the entry's own tokens
ShouldCloseCountOnly(count, tok, current, max_tokens) ==
  count > max_tokens /\ current # << >>

\* Line 69: the entry does not fit and the current group holds something
ShouldClose(count, tok, current, max_tokens) ==
  count + tok > max_tokens /\ current # << >>

\* A new group that forgets the entry that opened it
NewGroupEmpty(entry) == << >>

\* Line 71: the new group starts with the entry
NewGroup(entry) == << entry >>

\* The loop of _chunk_entries from entry i on, with its locals
RECURSIVE ChunkLoop(_, _, _, _, _, _)
ChunkLoop(es, i, done, current, count, max_tokens) ==
  IF i > Len(es)
  THEN IF current # << >> THEN Append(done, current) ELSE done
  ELSE LET entry == es[i]
           tok == entry.tok
       IN IF ShouldClose(count, tok, current, max_tokens)
          THEN ChunkLoop(es, i + 1, Append(done, current), NewGroup(entry), tok, max_tokens)
          ELSE ChunkLoop(es, i + 1, done, Append(current, entry), count + tok, max_tokens)

_chunk_entries(es, max_tokens) == ChunkLoop(es, 1, << >>, << >>, 0, max_tokens)

\* The texts of units
Texts(units) == [i \in DOMAIN units |-> units[i].text]

\* _summarize_chunk: the request for items
SummarizeRequest(units) ==
  [model |-> config.models["summarizer"],
   messages |-> << Msg("system", config.prompts["summarizer"]),
                   Msg("user", JoinLines(Texts(units))) >>]

\* A final record that takes its label and confidence from the first input record
FinishFromInputs(final_text) ==
  LET result == [label |-> results[1].label, confidence |-> results[1].confidence,
                 summary |-> final_text]
  IN /\ final_result' = << result >>
     /\ final_file' = << >>
     /\ pc' = "done"

\* Lines 59-60 and main lines 60-66: the final text is parsed and returned, and
\* main writes final.txt.
Finish(final_text) ==
  LET parsed == _parse_label_confidence(final_text)
      result == [label |-> parsed[1], confidence |-> parsed[2], summary |-> final_text]
  IN /\ final_result' = << result >>
     /\ final_file' = << << "O","v","e","r","a","l","l"," ","D","e","c","i","s","i","o","n",":"," " >> \o result.label \o << "\n" >>
                         \o << "C","o","n","f","i","d","e","n","c","e",":"," " >> \o FloatToText(result.confidence) \o << "%","\n","\n" >>
                         \o << "F","u","l","l"," ","s","u","m","m","a","r","y",":","\n" >> \o result.summary >>
     /\ pc' = "done"

\* Lines 22-43: the configuration is read, the results rendered and chunked.
SummarizeBegin ==
  /\ pc = "summarize"
  /\ IF "summarizer" \notin DOMAIN config.models \/ "summarizer" \notin DOMAIN config.prompts
     THEN /\ Raise("KeyError")
          /\ UNCHANGED << entries, max_prompt_tokens, chunks >>
     ELSE \E toks \in [DOMAIN results -> TokChoices] :
            LET es == [i \in DOMAIN results |-> Unit(RenderEntry(results[i]), toks[i])]
                ceiling == _model_max_tokens(config.models["summarizer"]) - buffer_tokens
                plan == _chunk_entries(es, ceiling)
            IN /\ entries' = es
               /\ max_prompt_tokens' = ceiling
               /\ chunks' = plan
               \* no chunk: no summary, and summaries[0] raises
               /\ IF plan = << >>
                  THEN Raise("IndexError")
                  ELSE pc' = "chunk" /\ error' = error
  /\ UNCHANGED << request, resp, calls, cidx, items, summaries >>
  /\ UNCHANGED analyzerVars
  /\ UNCHANGED mainVars

\* Lines 46-50, 81-87: the request for the chunk at cidx is sent.
SendChunk ==
  /\ pc = "chunk"
  /\ items' = chunks[cidx + 1]
  /\ request' = << SummarizeRequest(chunks[cidx + 1]) >>
  /\ calls' = Called("summarizer")
  /\ pc' = "await_chunk"
  /\ UNCHANGED << error, resp, entries, max_prompt_tokens, chunks, cidx, summaries >>
  /\ UNCHANGED analyzerVars
  /\ UNCHANGED mainVars

\* Lines 88, 48-57: the chunk's summary arrives; after the last chunk, several
\* summaries go to one more call and a single one is the final text.
RecvChunk ==
  /\ pc = "await_chunk"
  /\ \E r \in SummaryReplies :
       LET got == Append(summaries, Unit(Strip(r.text), r.tok))
       IN /\ resp' = r.text
          /\ summaries' = got
          /\ IF cidx + 1 < Len(chunks)
             THEN pc' = "chunk" /\ UNCHANGED << final_result, final_file >>
             ELSE IF Len(got) > 1
             THEN pc' = "aggregate" /\ UNCHANGED << final_result, final_file >>
             ELSE Finish(got[1].text)
  /\ cidx' = cidx + 1
  /\ request' = << >>
  /\ UNCHANGED << error, calls, entries, max_prompt_tokens, chunks, items >>
  /\ UNCHANGED << config, frame_paths >>
  /\ UNCHANGED analyzerVars

\* Line 55: the summaries are summarized by one more call.
SendAggregate ==
  /\ pc = "aggregate"
  /\ items' = summaries
  /\ request' = << SummarizeRequest(summaries) >>
  /\ calls' = Called("summarizer")
  /\ pc' = "await_aggregate"
  /\ UNCHANGED << error, resp, entries, max_prompt_tokens, chunks, cidx, summaries >>
  /\ UNCHANGED analyzerVars
  /\ UNCHANGED mainVars

\* Lines 55, 59-60: its reply is the final text.
RecvAggregate ==
  /\ pc = "await_aggregate"
  /\ \E r \in SummaryReplies :
       /\ resp' = r.text
       /\ Finish(Strip(r.text))
  /\ request' = << >>
  /\ UNCHANGED << error, calls >>
  /\ UNCHANGED << config, frame_paths >>
  /\ UNCHANGED analyzerVars
  /\ UNCHANGED summarizerVars

Next ==
  \/ ExtractFrames
  \/ AnalyzeBegin
  \/ SendInitial
  \/ RecvInitial
  \/ SendReflect
  \/ RecvReflect
  \/ AnalyzeReturn
  \/ FailCall
  \/ SummarizeBegin
  \/ SendChunk
  \/ RecvChunk
  \/ SendAggregate
  \/ RecvAggregate

Spec == Init /\ [][Next]_vars


(***************************************************************************)
(* _chunk_entries on its own: any units, any ceiling.                      *)
(***************************************************************************)
\* The most units of an input sequence, the most tokens of a unit, the largest ceiling.
MaxUnits == 3
MaxTok == 3
MaxCeiling == 3

UnitTexts == { << "a" >>, << "b" >> }

UnitInputs == { Unit(t, k) : t \in UnitTexts, k \in 0..MaxTok }

\* The sequences over S of length at most n
RECURSIVE SeqsUpTo(_, _)
SeqsUpTo(S, n) ==
  IF n = 0 THEN { << >> }
  ELSE LET shorter == SeqsUpTo(S, n - 1)
       IN shorter \cup { Append(q, x) : q \in { r \in shorter : Len(r) = n - 1 }, x \in S }

InitChunk ==
  /\ pc = "chunk_input"
  /\ entries \in SeqsUpTo(UnitInputs, MaxUnits)
  /\ max_prompt_tokens \in (-1)..MaxCeiling
  /\ chunks = << >>
  /\ error = ""
  /\ config = [models |-> << >>, prompts |-> << >>, frame_interval |-> << >>]
  /\ frame_paths = << >>
  /\ idx = 0
  /\ request = << >>
  /\ resp = << >>
  /\ initial_reply = << >>
  /\ results = << >>
  /\ written = << >>
  /\ calls = [analyzer |-> 0, summarizer |-> 0]
  /\ cidx = 0
  /\ items = << >>
  /\ summaries = << >>
  /\ final_result = << >>
  /\ final_file = << >>

\* chunks = _chunk_entries(entries, enc, max_prompt_tokens)
ChunkApply ==
  /\ pc = "chunk_input"
  /\ chunks' = _chunk_entries(entries, max_prompt_tokens)
  /\ pc' = "chunk_output"
  /\ UNCHANGED << error, request, resp, calls, entries, max_prompt_tokens, cidx, items,
                  summaries >>
  /\ UNCHANGED analyzerVars
  /\ UNCHANGED mainVars

NextChunk == ChunkApply

SpecChunk == InitChunk /\ [][NextChunk]_vars

(***************************************************************************)
(* Properties.                                                             *)
(***************************************************************************)
\* The units of all groups, in order
RECURSIVE Flatten(_)
Flatten(groups) ==
  IF groups = << >> THEN << >> ELSE groups[1] \o Flatten(Tail(groups))

\* The total of the units' token counts
RECURSIVE SumTok(_)
SumTok(units) ==
  IF units = << >> THEN 0 ELSE units[1].tok + SumTok(Tail(units))

\* The judgment a result records
Judgment(r) == << r.label, r.confidence >>

\* The interval analyze_frames reads
interval == config.frame_interval[1]

\* The request in flight is one of analyze_frames
AnalyzerRequestInFlight == pc \in {"await_initial", "await_reflect"}

\* C3: the groups _chunk_entries returns are non-empty and their concatenation,
\* in order, is the input sequence: no unit dropped, duplicated, split or
\* reordered, an oversized unit included.
C3_ChunksPreserveInput ==
  pc = "chunk_output" =>
    /\ Flatten(chunks) = entries
    /\ \A g \in DOMAIN chunks : chunks[g] # << >>

\* An oversized unit first, alone in its group, then two different units that
\* share the next group.
C3_Witness ==
  /\ pc = "chunk_output"
  /\ Len(entries) = 3
  /\ entries[1].tok > max_prompt_tokens
  /\ entries[2].text # entries[3].text
  /\ Len(chunks) = 2
  /\ Len(chunks[2]) = 2

\* C4: every group's total is at most the ceiling, except a group of exactly one
\* unit that alone exceeds the ceiling; an oversized unit shares its group with
\* no other unit.
C4_ChunksRespectCeiling ==
  pc = "chunk_output" =>
    \A g \in DOMAIN chunks :
      /\ \/ SumTok(chunks[g]) <= max_prompt_tokens
         \/ Len(chunks[g]) = 1 /\ chunks[g][1].tok > max_prompt_tokens
      /\ \A u \in DOMAIN chunks[g] :
           chunks[g][u].tok > max_prompt_tokens => Len(chunks[g]) = 1

\* A group filled exactly to the ceiling, followed by an oversized unit alone.
C4_Witness ==
  /\ pc = "chunk_output"
  /\ Len(chunks) = 2
  /\ Len(chunks[1]) = 2
  /\ SumTok(chunks[1]) = max_prompt_tokens
  /\ chunks[1][1].tok > 0
  /\ chunks[2][1].tok > max_prompt_tokens


\* The frame at index idx - 1 has just been recorded and its replies are still
\* at hand.
FrameRecorded == pc \in {"initial", "return"} /\ idx >= 1

\* C1: with (L0, C0) the parse of the initial reply and (L1, C1) that of the
\* reflection reply, the frame's recorded judgment is (L0, C0) when C1 = 0.0
\* and C0 > 0.0 and (L1, C1) otherwise; without a reflection prompt it is
\* (L0, C0).
C1_FallbackPolicy ==
  FrameRecorded =>
    LET first == _parse_label_confidence(initial_reply)
        second == _parse_label_confidence(Strip(resp))
        got == Judgment(results[idx])
    IN IF ~ReflectionConfigured THEN got = first
       ELSE IF IsZero(second[2]) /\ GreaterThanZero(first[2]) THEN got = first
       ELSE got = second

\* Initial (Yes, 80.0), reflection (No, 0.0): the frame is recorded as (Yes, 80.0).
C1_Witness ==
  /\ FrameRecorded
  /\ ReflectionConfigured
  /\ _parse_label_confidence(initial_reply) = << Yes, Float(<< "8","0" >>, << >>) >>
  /\ _parse_label_confidence(Strip(resp)) = << No, Zero >>
  /\ Judgment(results[idx]) = << Yes, Float(<< "8","0" >>, << >>) >>

\* C2 (as claimed): the units of every summarization call in flight are one
\* group of a chunk plan: their tokens are at most the ceiling, or the call
\* carries one unit alone.
C2_EveryCallIsOneGroup ==
  pc \in {"await_chunk", "await_aggregate"} =>
    \/ SumTok(items) <= max_prompt_tokens
    \/ Len(items) = 1

\* C5: when a model call of the frame at index k fails, the run has ended with
\* that failure, a record has been written for each of frames 0..k-1 and for no
\* other frame, no record has been made for frame k, and no summarization call
\* or final verdict has been made.
C5_FailureKeepsCompletedFrames ==
  (pc = "failed" /\ error = "CallFailure" /\ summaries = << >> /\ chunks = << >>) =>
    /\ ~ENABLED Next
    /\ idx < Len(frame_paths)
    /\ Len(written) = idx
    /\ \A i \in 1..idx :
         /\ written[i].record = results[i]
         /\ PathJoin(FramesDir, written[i].record.frame) = frame_paths[i]
    /\ Len(results) = idx
    /\ calls.summarizer = 0
    /\ final_result = << >>
    /\ final_file = << >>

\* The reflection call of the second frame fails: the first frame's record is on disk.
C5_Witness ==
  /\ pc = "failed"
  /\ error = "CallFailure"
  /\ idx = 1
  /\ Len(frame_paths) = 2
  /\ Len(request[1].messages) = 4
  /\ Len(written) = 1

\* C6 (as claimed): when the run ends with a configuration error, no model call
\* has been made.
C6_ConfigErrorBeforeAnyCall ==
  (pc = "failed" /\ error = "KeyError") => calls.analyzer + calls.summarizer = 0

\* C8: when analyze_frames returns, there is one record per frame, in order;
\* the record at position i carries the i-th frame's identifier and the
\* timestamp i * frame_interval.
C8_OneRecordPerFrame ==
  pc = "return" =>
    /\ Len(results) = Len(frame_paths)
    /\ \A i \in DOMAIN results :
         /\ results[i].timestamp = (i - 1) * interval
         /\ PathJoin(FramesDir, results[i].frame) = frame_paths[i]

\* The only frame is f2.jpg: its timestamp is 0, that of its position.
C8_Witness ==
  /\ pc = "return"
  /\ Len(results) = 1
  /\ results[1].frame = FrameName(2)
  /\ results[1].timestamp = 0
  /\ interval = ConfiguredInterval

\* C9 (as claimed): every record has a label among Yes, No, Unknown and a
\* confidence in [0, 100].
C9_RecordsInRange ==
  /\ \A i \in DOMAIN results :
       /\ results[i].label \in {Yes, No, Unknown}
       /\ AtMostHundred(results[i].confidence)
  /\ \A i \in DOMAIN final_result :
       /\ final_result[i].label \in {Yes, No, Unknown}
       /\ AtMostHundred(final_result[i].confidence)

\* The number of model calls a frame takes
CallsPerFrame == IF ReflectionConfigured THEN 2 ELSE 1

\* C10: a frame takes one model call without a reflection prompt and two with
\* one; the reflection request is sent after the initial reply has come and is
\* the initial request followed by that reply and the reflection prompt; when a
\* call of frame i is made, frames 0..i-1 have had all their calls and are
\* written.
C10_CallsInOrder ==
  /\ pc \in {"initial", "return"} => calls.analyzer = idx * CallsPerFrame
  /\ pc \in {"reflect", "await_reflect"} => ReflectionConfigured
  /\ pc = "await_initial" =>
       /\ calls.analyzer = idx * CallsPerFrame + 1
       /\ request[1].messages = InitialMessages(frame_paths[idx + 1])
  /\ pc = "await_reflect" =>
       /\ calls.analyzer = idx * CallsPerFrame + 2
       /\ initial_reply = Strip(resp)
       /\ request[1].messages =
            << Msg("system", AnalyzerPrompt),
               Msg("user", << "H","e","r","e"," ","i","s"," ","a"," ","b","a","s","e","6","4","-","e","n","c","o","d","e","d"," ","i","m","a","g","e",":","\n" >> \o Base64Image(frame_paths[idx + 1])),
               Msg("assistant", initial_reply),
               Msg("user", ReflectionPrompt) >>
  /\ AnalyzerRequestInFlight => Len(written) = idx /\ Len(results) = idx

\* The reflection request of the second frame is in flight.
C10_Witness ==
  /\ pc = "await_reflect"
  /\ idx = 1
  /\ calls.analyzer = 4


\* summarize_frames is running, called with at least one record and a complete
\* configuration.
Summarizing ==
  /\ pc \in {"summarize", "chunk", "await_chunk", "aggregate", "await_aggregate"}
  /\ results # << >>
  /\ "summarizer" \in DOMAIN config.models
  /\ "summarizer" \in DOMAIN config.prompts

\* The final record is the parse of the last response, stripped, and carries
\* that text.
FinalRecordFromLastText ==
  pc = "done" =>
    /\ Len(final_result) = 1
    /\ final_result[1].summary = Strip(resp)
    /\ final_result[1].label = ParseLabel(Strip(resp))
    /\ final_result[1].confidence = ParseConfidence(Strip(resp))

\* C7: called with at least one record, summarize_frames makes at most one call
\* per record and one more, always has a next step until it has returned (so
\* it ends, unless a model call fails), and returns exactly one final record,
\* whose summary is the last summary text received and whose label and
\* confidence are the parse of that text.
C7_SummarizationConverges ==
  /\ FinalRecordFromLastText
  /\ calls.summarizer <= Len(results) + 1
  /\ Summarizing => ENABLED Next
  /\ results # << >> => error # "IndexError"

\* Two records, two chunks, a final record from the reply to the call that
\* summarized the two chunk summaries; its label differs from the records'.
C7_Witness ==
  /\ pc = "done"
  /\ Len(results) = 2
  /\ Len(chunks) = 2
  /\ calls.summarizer = 3
  /\ final_result[1].label = Unknown
  /\ results[1].label = Yes
  /\ results[2].label = Yes

====
